---- MODULE Spec2Model ----
(***************************************************************************)
(* Model of the sql-mongo translator: sql_to_mongo.py (forward direction)  *)
(* and mongo_to_sql.py (reverse direction).                                *)
(*                                                                         *)
(* Text is a sequence of one-character strings, so that split, strip,      *)
(* replace and the number conversions are computed as Python computes      *)
(* them.  Python values are tagged records [t |-> type, v |-> payload];    *)
(* a dict is the sequence of its <<key, value>> items in insertion order.  *)
(***************************************************************************)
EXTENDS Integers, Sequences, FiniteSets, TLC

(* ---------------------------------------------------------------------- *)
(* Bounds                                                                  *)
(* ---------------------------------------------------------------------- *)
MaxFragments == 2
MaxSort == 2
MaxLimit == 2
MaxTokens == 4

(* ---------------------------------------------------------------------- *)
(* Python values                                                           *)
(* ---------------------------------------------------------------------- *)
PyNone == [t |-> "none", v |-> 0]
PyInt(n) == [t |-> "int", v |-> n]
PyFloat(m, d) == [t |-> "float", v |-> <<m, d>>]
PyStr(s) == [t |-> "str", v |-> s]
PyList(xs) == [t |-> "list", v |-> xs]
PyTuple(xs) == [t |-> "tuple", v |-> xs]
PyDict(items) == [t |-> "dict", v |-> items]

RECURSIVE DictSetItems(_, _, _)
DictSetItems(items, k, val) ==
    IF items = <<>> THEN << <<k, val>> >>
    ELSE IF Head(items)[1] = k THEN << <<k, val>> >> \o Tail(items)
    ELSE <<Head(items)>> \o DictSetItems(Tail(items), k, val)

DictSet(d, k, val) == PyDict(DictSetItems(d.v, k, val))
DictHas(d, k) == \E n \in 1..Len(d.v) : d.v[n][1] = k
DictGet(d, k) == d.v[CHOOSE n \in 1..Len(d.v) : d.v[n][1] = k][2]

Falsy(x) ==
    CASE x.t = "none" -> TRUE
      [] x.t = "int" -> x.v = 0
      [] x.t = "float" -> x.v[1] = 0
      [] OTHER -> x.v = <<>>

(* ---------------------------------------------------------------------- *)
(* Python str methods                                                      *)
(* ---------------------------------------------------------------------- *)
Whitespace == {" ", "\t", "\n", "\r"}
Digits == <<"0", "1", "2", "3", "4", "5", "6", "7", "8", "9">>
DigitSet == {Digits[n] : n \in 1..10}
DigitVal(c) == (CHOOSE n \in 1..10 : Digits[n] = c) - 1

LowerLetters == <<"a", "b", "c", "d", "e", "f", "g", "h", "i", "j", "k", "l", "m",
                  "n", "o", "p", "q", "r", "s", "t", "u", "v", "w", "x", "y", "z">>
UpperLetters == <<"A", "B", "C", "D", "E", "F", "G", "H", "I", "J", "K", "L", "M",
                  "N", "O", "P", "Q", "R", "S", "T", "U", "V", "W", "X", "Y", "Z">>
UpperChar(c) ==
    IF \E n \in 1..26 : LowerLetters[n] = c
    THEN UpperLetters[CHOOSE n \in 1..26 : LowerLetters[n] = c]
    ELSE c
Upper(s) == [n \in 1..Len(s) |-> UpperChar(s[n])]

RECURSIVE LStripChars(_, _)
LStripChars(s, chars) ==
    IF s # <<>> /\ Head(s) \in chars THEN LStripChars(Tail(s), chars) ELSE s

RECURSIVE RStripChars(_, _)
RStripChars(s, chars) ==
    IF s # <<>> /\ s[Len(s)] \in chars
    THEN RStripChars(SubSeq(s, 1, Len(s) - 1), chars)
    ELSE s

StripChars(s, chars) == RStripChars(LStripChars(s, chars), chars)
Strip(s) == StripChars(s, Whitespace)

StartsWith(s, p) == Len(s) >= Len(p) /\ SubSeq(s, 1, Len(p)) = p

\* s.split(sep) for a non-empty separator
RECURSIVE SplitOn(_, _)
SplitOn(s, sep) ==
    IF \E n \in 1..(Len(s) - Len(sep) + 1) : SubSeq(s, n, n + Len(sep) - 1) = sep
    THEN LET n == CHOOSE m \in 1..(Len(s) - Len(sep) + 1) :
                     /\ SubSeq(s, m, m + Len(sep) - 1) = sep
                     /\ \A k \in 1..(m - 1) : SubSeq(s, k, k + Len(sep) - 1) # sep
         IN <<SubSeq(s, 1, n - 1)>> \o SplitOn(SubSeq(s, n + Len(sep), Len(s)), sep)
    ELSE <<s>>

\* length of the leading run of non-whitespace characters
RECURSIVE WordLen(_)
WordLen(s) ==
    IF s = <<>> \/ Head(s) \in Whitespace THEN 0 ELSE 1 + WordLen(Tail(s))

\* s.split(None, maxsplit); maxsplit = -1 means no limit
RECURSIVE SplitWs(_, _)
SplitWs(s, maxsplit) ==
    LET r == LStripChars(s, Whitespace)
    IN IF r = <<>> THEN <<>>
       ELSE IF maxsplit = 0 THEN <<r>>
       ELSE LET n == WordLen(r)
            IN <<SubSeq(r, 1, n)>> \o
               SplitWs(SubSeq(r, n + 1, Len(r)),
                       IF maxsplit < 0 THEN maxsplit ELSE maxsplit - 1)

\* sep.join(parts)
RECURSIVE Join(_, _)
Join(parts, sep) ==
    IF parts = <<>> THEN <<>>
    ELSE IF Len(parts) = 1 THEN parts[1]
    ELSE parts[1] \o sep \o Join(Tail(parts), sep)

\* s.replace(old, new) for a one-character old
RECURSIVE Replace(_, _, _)
Replace(s, old, new) ==
    IF s = <<>> THEN <<>>
    ELSE (IF Head(s) = old THEN new ELSE <<Head(s)>>) \o Replace(Tail(s), old, new)

\* s.replace(" ", "")
RemoveSpaces(s) == Replace(s, " ", <<>>)

(* ---------------------------------------------------------------------- *)
(* Python int(), float() and str() on numbers                              *)
(* The literals of this model contain no exponent, underscore, "inf" or    *)
(* "nan", so the accepted forms are [sign]digits and [sign]digits.digits.  *)
(* ---------------------------------------------------------------------- *)
Unsigned(s) == IF s # <<>> /\ Head(s) \in {"+", "-"} THEN Tail(s) ELSE s
Negative(s) == s # <<>> /\ Head(s) = "-"
AllDigits(s) == \A n \in 1..Len(s) : s[n] \in DigitSet

RECURSIVE DigitsValue(_)
DigitsValue(s) ==
    IF s = <<>> THEN 0 ELSE 10 * DigitsValue(SubSeq(s, 1, Len(s) - 1)) + DigitVal(s[Len(s)])

IsIntText(s) == LET u == Unsigned(Strip(s)) IN u # <<>> /\ AllDigits(u)
IntValue(s) ==
    LET r == Strip(s) IN
    IF Negative(r) THEN 0 - DigitsValue(Unsigned(r)) ELSE DigitsValue(Unsigned(r))

IsFloatText(s) ==
    LET u == Unsigned(Strip(s))
        dots == {n \in 1..Len(u) : u[n] = "."}
    IN /\ Cardinality(dots) <= 1
       /\ \A n \in 1..Len(u) : u[n] \in DigitSet \cup {"."}
       /\ \E n \in 1..Len(u) : u[n] \in DigitSet

\* the float as <<mantissa, decimals>>, trailing zeros of the fraction dropped
FloatValue(s) ==
    LET r == Strip(s)
        u == Unsigned(r)
        parts == SplitOn(u, <<".">>)
        whole == parts[1]
        frac == IF Len(parts) > 1 THEN RStripChars(parts[2], {"0"}) ELSE <<>>
        m == DigitsValue(whole \o frac)
    IN <<IF Negative(r) THEN 0 - m ELSE m, Len(frac)>>

RECURSIVE NatToStr(_)
NatToStr(n) ==
    IF n < 10 THEN <<Digits[n + 1]>> ELSE NatToStr(n \div 10) \o <<Digits[(n % 10) + 1]>>

IntToStr(n) == IF n < 0 THEN <<"-">> \o NatToStr(0 - n) ELSE NatToStr(n)

RECURSIVE Pow10(_)
Pow10(d) == IF d = 0 THEN 1 ELSE 10 * Pow10(d - 1)

RECURSIVE ZeroPad(_, _)
ZeroPad(s, width) == IF Len(s) >= width THEN s ELSE ZeroPad(<<"0">> \o s, width)

FloatToStr(f) ==
    LET m == IF f[1] < 0 THEN 0 - f[1] ELSE f[1]
        d == f[2]
        sign == IF f[1] < 0 THEN <<"-">> ELSE <<>>
    IN IF d = 0 THEN sign \o NatToStr(m) \o <<".", "0">>
       ELSE sign \o NatToStr(m \div Pow10(d)) \o <<".">> \o ZeroPad(NatToStr(m % Pow10(d)), d)

\* str(x) for the values that reach a format string here
ToStr(x) ==
    CASE x.t = "int" -> IntToStr(x.v)
      [] x.t = "float" -> FloatToStr(x.v)
      [] x.t = "none" -> <<"N", "o", "n", "e">>
      [] OTHER -> x.v

IsNumber(x) == x.t \in {"int", "float"}

(* ---------------------------------------------------------------------- *)
(* sql_to_mongo.py : filter parser                                         *)
(* ---------------------------------------------------------------------- *)
convert_value(val) ==
    IF IsIntText(val) THEN PyInt(IntValue(val))
    ELSE IF IsFloatText(val) THEN PyFloat(FloatValue(val)[1], FloatValue(val)[2])
    ELSE PyStr(val)

K_gt == <<"$", "g", "t">>
K_gte == <<"$", "g", "t", "e">>
K_lt == <<"$", "l", "t">>
K_lte == <<"$", "l", "t", "e">>
K_eq == <<"$", "e", "q">>
K_ne == <<"$", "n", "e">>
K_regex == <<"$", "r", "e", "g", "e", "x">>
K_in == <<"$", "i", "n">>
K_nin == <<"$", "n", "i", "n">>
K_opq == <<"$", "o", "p", "?">>
K_and == <<"$", "a", "n", "d">>
K_or == <<"$", "o", "r">>

AndSep == <<" ", "A", "N", "D", " ">>

\* the value stored for one fragment "field op val" (lines 250-263)
where_leaf(op, val) ==
    CASE op = <<"=">> -> PyStr(val)
      [] op = <<">">> -> PyDict(<< <<K_gt, convert_value(val)>> >>)
      [] op = <<"<">> -> PyDict(<< <<K_lt, convert_value(val)>> >>)
      [] op = <<">", "=">> -> PyDict(<< <<K_gte, convert_value(val)>> >>)
      [] op = <<"<", "=">> -> PyDict(<< <<K_lte, convert_value(val)>> >>)
      [] OTHER -> PyDict(<< <<K_opq, PyStr(val)>> >>)

trim_literal(val) == StripChars(StripChars(RStripChars(Strip(val), {";"}), {"'"}), {"\""})

RECURSIVE where_parts(_, _)
where_parts(parts, out) ==
    IF parts = <<>> THEN out
    ELSE LET tokens == SplitWs(Head(parts), 2)
         IN IF Len(tokens) < 3 THEN where_parts(Tail(parts), out)
            ELSE where_parts(Tail(parts),
                             DictSet(out, tokens[1],
                                     where_leaf(tokens[2], trim_literal(tokens[3]))))

parse_where_conditions(text) ==
    LET t == RStripChars(Strip(text), {";"})
    IN IF t = <<>> THEN PyDict(<<>>)
       ELSE where_parts(SplitOn(t, AndSep), PyDict(<<>>))

(* ---------------------------------------------------------------------- *)
(* Text literals of the source, as character sequences                     *)
(* ---------------------------------------------------------------------- *)
T_GT == <<">">>
T_GE == <<">", "=">>
T_LT == <<"<">>
T_LE == <<"<", "=">>
T_EQ == <<"=">>
T_NE == <<"<", ">">>
T_LIKE == <<"L", "I", "K", "E">>
T_COMMA == <<",", " ">>
T_IN == <<" ", "I", "N", " ", "(">>
T_NOT_IN == <<" ", "N", "O", "T", " ", "I", "N", " ", "(">>
T_UNKNOWN_OP == <<" ", "/", "*", "u", "n", "k", "n", "o", "w", "n", " ", "o", "p", " ">>
T_END_COMMENT == <<"*", "/", " ">>
T_EQUALS == <<" ", "=", " ">>
T_AND_PAREN == <<")", " ", "A", "N", "D", " ", "(">>
T_OR_PAREN == <<")", " ", "O", "R", " ", "(">>
T_ASC == <<"A", "S", "C">>
T_DESC == <<"D", "E", "S", "C">>
T_LIMIT == <<" ", "L", "I", "M", "I", "T", " ">>
T_OFFSET == <<" ", "O", "F", "F", "S", "E", "T", " ">>
T_SELECT == <<"S", "E", "L", "E", "C", "T", " ">>
T_FROM == <<" ", "F", "R", "O", "M", " ">>
T_WHERE == <<" ", "W", "H", "E", "R", "E", " ">>
T_ORDER_BY == <<" ", "O", "R", "D", "E", "R", " ", "B", "Y", " ">>
T_unknown_table == <<"u", "n", "k", "n", "o", "w", "n", "_", "t", "a", "b", "l", "e">>
F_collection == <<"c", "o", "l", "l", "e", "c", "t", "i", "o", "n">>
F_find == <<"f", "i", "n", "d">>
F_projection == <<"p", "r", "o", "j", "e", "c", "t", "i", "o", "n">>
F_sort == <<"s", "o", "r", "t">>
F_limit == <<"l", "i", "m", "i", "t">>
F_skip == <<"s", "k", "i", "p">>
F_group == <<"g", "r", "o", "u", "p">>
(* ---------------------------------------------------------------------- *)
(* mongo_to_sql.py : relational renderer                                   *)
(* ---------------------------------------------------------------------- *)
escape_quotes(s) == Replace(s, "'", <<"'", "'">>)

quote_if_needed(val) ==
    IF IsNumber(val) THEN ToStr(val)
    ELSE <<"'">> \o escape_quotes(ToStr(val)) \o <<"'">>

op_map ==
    << <<K_gt, T_GT>>, <<K_gte, T_GE>>, <<K_lt, T_LT>>, <<K_lte, T_LE>>,
       <<K_eq, T_EQ>>, <<K_ne, T_NE>>, <<K_regex, T_LIKE>> >>

convert_operator(field, op, val) ==
    LET val_str ==
            IF IsNumber(val) THEN ToStr(val)
            ELSE IF val.t = "list"
                 THEN Join([n \in 1..Len(val.v) |-> quote_if_needed(val.v[n])], T_COMMA)
                 ELSE <<"'">> \o escape_quotes(ToStr(val)) \o <<"'">>
    IN IF DictHas(PyDict(op_map), op)
       THEN field \o <<" ">> \o DictGet(PyDict(op_map), op) \o <<" ">> \o val_str
       ELSE IF op = K_in THEN field \o T_IN \o val_str \o <<")">>
       ELSE IF op = K_nin THEN field \o T_NOT_IN \o val_str \o <<")">>
       ELSE field \o T_UNKNOWN_OP \o op \o T_END_COMMENT \o val_str

\* the clauses of one field of the condition dict (lines 104-117)
field_clauses(field, expr) ==
    IF expr.t = "dict"
    THEN [n \in 1..Len(expr.v) |-> convert_operator(field, expr.v[n][1], expr.v[n][2])]
    ELSE IF IsNumber(expr)
         THEN << field \o T_EQUALS \o ToStr(expr) >>
         ELSE << field \o T_EQUALS \o <<"'">> \o escape_quotes(ToStr(expr)) \o <<"'">> >>

RECURSIVE basic_clauses(_)
basic_clauses(items) ==
    IF items = <<>> THEN <<>>
    ELSE field_clauses(Head(items)[1], Head(items)[2]) \o basic_clauses(Tail(items))

build_basic_conditions(condition_dict) == Join(basic_clauses(condition_dict.v), AndSep)

NonEmpty(s) == s # <<>>

RECURSIVE build_where_sql(_)
build_where_sql(find_filter) ==
    IF Falsy(find_filter) THEN <<>>
    ELSE IF find_filter.t = "dict"
    THEN IF DictHas(find_filter, K_and)
         THEN LET subs == DictGet(find_filter, K_and).v
                  conditions == [n \in 1..Len(subs) |-> build_where_sql(subs[n])]
              IN <<"(">> \o Join(SelectSeq(conditions, NonEmpty), T_AND_PAREN) \o <<")">>
         ELSE IF DictHas(find_filter, K_or)
         THEN LET subs == DictGet(find_filter, K_or).v
                  conditions == [n \in 1..Len(subs) |-> build_where_sql(subs[n])]
              IN <<"(">> \o Join(SelectSeq(conditions, NonEmpty), T_OR_PAREN) \o <<")">>
         ELSE build_basic_conditions(find_filter)
    ELSE IF find_filter.t = "list"
    THEN LET subclauses == [n \in 1..Len(find_filter.v) |-> build_where_sql(find_filter.v[n])]
         IN <<"(">> \o Join(SelectSeq(subclauses, NonEmpty), T_AND_PAREN) \o <<")">>
    ELSE <<>>

IsPair(x) == x.t = "tuple" /\ Len(x.v) = 2

RECURSIVE order_parts(_)
order_parts(sort_items) ==
    IF sort_items = <<>> THEN <<>>
    ELSE (IF IsPair(Head(sort_items))
          THEN LET field == Head(sort_items).v[1]
                   direction == Head(sort_items).v[2]
                   dir_sql == IF direction.t = "int" /\ direction.v = 1 THEN T_ASC ELSE T_DESC
               IN << ToStr(field) \o <<" ">> \o dir_sql >>
          ELSE <<>>) \o order_parts(Tail(sort_items))

\* build_order_by_sql joining the parts with " " instead of ", "
build_order_by_sql_mut(sort_list) ==
    IF Falsy(sort_list) \/ sort_list.t # "list" THEN <<>>
    ELSE Join(order_parts(sort_list.v), <<" ">>)

build_order_by_sql(sort_list) ==
    IF Falsy(sort_list) \/ sort_list.t # "list" THEN <<>>
    ELSE Join(order_parts(sort_list.v), T_COMMA)

DictGetOr(d, k, default) == IF DictHas(d, k) THEN DictGet(d, k) ELSE default

IsPositiveInt(x) == x.t = "int" /\ x.v > 0

SentinelLimit == 999999999

\* limit_offset_sql with the skip test weakened from "> 0" to "is an int"
limit_offset_sql_mut(limit_val, skip_val) ==
    IF IsPositiveInt(limit_val)
    THEN T_LIMIT \o ToStr(limit_val) \o
         (IF skip_val.t = "int" THEN T_OFFSET \o ToStr(skip_val) ELSE <<>>)
    ELSE IF skip_val.t = "int"
         THEN T_LIMIT \o IntToStr(SentinelLimit) \o T_OFFSET \o ToStr(skip_val)
         ELSE <<>>

\* step 5 of mongo_find_to_sql: the LIMIT / OFFSET text (lines 36-46)
limit_offset_sql(limit_val, skip_val) ==
    IF IsPositiveInt(limit_val)
    THEN T_LIMIT \o ToStr(limit_val) \o
         (IF IsPositiveInt(skip_val) THEN T_OFFSET \o ToStr(skip_val) ELSE <<>>)
    ELSE IF IsPositiveInt(skip_val)
         THEN T_LIMIT \o IntToStr(SentinelLimit) \o T_OFFSET \o ToStr(skip_val)
         ELSE <<>>

RECURSIVE included_columns(_)
included_columns(items) ==
    IF items = <<>> THEN <<>>
    ELSE (IF Head(items)[2].t = "int" /\ Head(items)[2].v = 1
          THEN <<Head(items)[1]>> ELSE <<>>) \o included_columns(Tail(items))

\* step 1 of mongo_find_to_sql: the column list (lines 11-19)
columns_sql(projection) ==
    IF projection.t = "dict" /\ Len(projection.v) > 0 /\ included_columns(projection.v) # <<>>
    THEN Join(included_columns(projection.v), T_COMMA)
    ELSE <<"*">>

\* steps 1-4 of mongo_find_to_sql: SELECT ... FROM ... [WHERE ...] [ORDER BY ...]
select_sql(mongo_obj) ==
    LET table == DictGetOr(mongo_obj, F_collection, PyStr(T_unknown_table))
        find_filter == DictGetOr(mongo_obj, F_find, PyDict(<<>>))
        projection == DictGetOr(mongo_obj, F_projection, PyDict(<<>>))
        sort_clause == DictGetOr(mongo_obj, F_sort, PyList(<<>>))
        where_sql == build_where_sql(find_filter)
        order_sql == build_order_by_sql(sort_clause)
    IN T_SELECT \o columns_sql(projection) \o T_FROM \o ToStr(table)
       \o (IF where_sql # <<>> THEN T_WHERE \o where_sql ELSE <<>>)
       \o (IF order_sql # <<>> THEN T_ORDER_BY \o order_sql ELSE <<>>)

mongo_find_to_sql(mongo_obj) ==
    select_sql(mongo_obj)
    \o limit_offset_sql(DictGetOr(mongo_obj, F_limit, PyNone), DictGetOr(mongo_obj, F_skip, PyNone))
    \o <<";">>

W_SELECT == <<"S", "E", "L", "E", "C", "T">>
W_FROM == <<"F", "R", "O", "M">>
W_WHERE == <<"W", "H", "E", "R", "E">>
W_ORDER == <<"O", "R", "D", "E", "R">>
W_GROUP == <<"G", "R", "O", "U", "P">>
W_BY == <<"B", "Y">>
W_LIMIT == <<"L", "I", "M", "I", "T">>
K_group == <<"$", "g", "r", "o", "u", "p">>
K_id == <<"_", "i", "d">>
K_count == <<"c", "o", "u", "n", "t">>
K_sum == <<"$", "s", "u", "m">>
(* ---------------------------------------------------------------------- *)
(* sql_to_mongo.py : clause parsers and document-query builder             *)
(* A token of the statement is [ttype, cls, value]: its sqlparse token     *)
(* type, its class, and its text str(token).                               *)
(* ---------------------------------------------------------------------- *)
Tok(ttype, cls, value) == [ttype |-> ttype, cls |-> cls, value |-> value]

RECURSIVE order_list(_)
order_list(parts) ==
    IF parts = <<>> THEN <<>>
    ELSE LET part == Head(parts)
             sub == SplitWs(Strip(part), -1)
             item == IF Len(sub) = 1 THEN PyTuple(<<PyStr(sub[1]), PyInt(1)>>)
                     ELSE IF Len(sub) = 2
                     THEN (IF Upper(sub[2]) = T_ASC THEN PyTuple(<<PyStr(sub[1]), PyInt(1)>>)
                           ELSE IF Upper(sub[2]) = T_DESC
                           THEN PyTuple(<<PyStr(sub[1]), PyInt(-1)>>)
                           ELSE PyTuple(<<PyStr(sub[1]), PyInt(1)>>))
                     ELSE PyTuple(<<PyStr(Strip(part)), PyInt(1)>>)
         IN <<item>> \o order_list(Tail(parts))

parse_order_by(token) ==
    LET raw == RStripChars(Strip(token.value), {";"})
    IN IF raw = <<>> THEN PyList(<<>>)
       ELSE PyList(order_list(SplitOn(raw, <<",">>)))

parse_group_by(token) ==
    LET raw == RStripChars(Strip(token.value), {";"})
        parts == SplitOn(raw, <<",">>)
    IN IF raw = <<>> THEN PyList(<<>>)
       ELSE PyList([n \in 1..Len(parts) |-> PyStr(Strip(parts[n]))])

parse_limit_value(token) ==
    LET raw == RStripChars(Strip(token.value), {";"})
    IN IF IsIntText(raw) THEN PyInt(IntValue(raw)) ELSE PyNone

extract_columns(token) ==
    IF token.cls = "IdentifierList"
    THEN LET idents == SplitOn(token.value, <<",">>)
         IN PyList([n \in 1..Len(idents) |-> PyStr(Strip(idents[n]))])
    ELSE IF token.cls = "Identifier" THEN PyList(<<PyStr(Strip(token.value))>>)
    ELSE LET raw == RemoveSpaces(Strip(token.value))
         IN IF raw = <<>> THEN PyList(<<>>) ELSE PyList(<<PyStr(raw)>>)

extract_where_clause(where_token) ==
    LET raw == Strip(where_token.value)
    IN IF StartsWith(Upper(raw), W_WHERE)
       THEN parse_where_conditions(Strip(SubSeq(raw, 6, Len(raw))))
       ELSE parse_where_conditions(raw)

build_mongo_find(table_name, where_clause, columns) ==
    LET filter_query == IF Falsy(where_clause) THEN PyDict(<<>>) ELSE where_clause
        wildcard == \E n \in 1..Len(columns.v) : columns.v[n] = PyStr(<<"*">>)
        projection == IF ~Falsy(columns) /\ ~wildcard
                      THEN PyDict([n \in 1..Len(columns.v) |-> <<columns.v[n].v, PyInt(1)>>])
                      ELSE PyDict(<<>>)
    IN PyDict(<< <<F_collection, table_name>>,
                 <<F_find, filter_query>>,
                 <<F_projection, IF Falsy(projection) THEN PyNone ELSE projection>> >>)

RECURSIVE group_id(_, _)
group_id(group_items, out) ==
    IF group_items = <<>> THEN out
    ELSE group_id(Tail(group_items),
                  DictSet(out, Head(group_items).v, PyStr(<<"$">> \o Head(group_items).v)))

build_mongo_query(table_name, columns, where_clause, order_by, group_by, limit_val) ==
    LET q0 == build_mongo_find(table_name, where_clause, columns)
        q1 == IF ~Falsy(order_by) THEN DictSet(q0, F_sort, order_by) ELSE q0
        q2 == IF limit_val.t # "none" THEN DictSet(q1, F_limit, limit_val) ELSE q1
        group_pipeline ==
            PyDict(<< <<K_group,
                        PyDict(<< <<K_id, group_id(group_by.v, PyDict(<<>>))>>,
                                  <<K_count, PyDict(<< <<K_sum, PyInt(1)>> >>)>> >>)>> >>)
    IN IF ~Falsy(group_by) THEN DictSet(q2, F_group, group_pipeline) ELSE q2

(* ---------------------------------------------------------------------- *)
(* State                                                                   *)
(* ---------------------------------------------------------------------- *)
VARIABLES
    calls,            \* chain of translation-function calls: <<[fn, arg, ret], ...>>
    pc,               \* position in sql_select_to_mongo: "idle", "call", "scan", "done"
    parsed,           \* sqlparse.parse(sql_query): <<>> or <<statement tokens>>
    tokens,           \* the statement's tokens without the whitespace tokens
    i,                \* scan index into tokens (0-based, as in the source)
    found_select, reading_columns, reading_from,
    columns, table_name, where_clause, order_by, group_by, limit_val,
    result            \* what sql_select_to_mongo returns

scan_vars == <<pc, parsed, tokens, i, found_select, reading_columns, reading_from,
               columns, table_name, where_clause, order_by, group_by, limit_val, result>>
vars == <<calls, scan_vars>>
(* ---------------------------------------------------------------------- *)
(* Inputs                                                                  *)
(* ---------------------------------------------------------------------- *)
TSelect == Tok("DML", "Token", W_SELECT)
TFrom == Tok("Keyword", "Token", W_FROM)
TWhereKw == Tok("Keyword", "Token", W_WHERE)
TWhere == Tok("None", "Where", <<"W", "H", "E", "R", "E", " ", "a", " ", ">", " ", "1">>)
TOrder == Tok("Keyword", "Token", W_ORDER)
TGroup == Tok("Keyword", "Token", <<"g", "r", "o", "u", "p">>)
TBy == Tok("Keyword", "Token", W_BY)
TLimit == Tok("Keyword", "Token", W_LIMIT)
TIdent == Tok("None", "Identifier", <<"t">>)
TNumber == Tok("Literal.Number.Integer", "Token", <<"7">>)
TSpace == Tok("Text.Whitespace", "Token", <<" ">>)

TokenAlphabet ==
    {TSelect, TFrom, TWhereKw, TWhere, TOrder, TGroup, TBy, TLimit, TIdent, TNumber, TSpace}

Statements == UNION {[1..n -> TokenAlphabet] : n \in 1..MaxTokens}

Frag(field, op, lit) == field \o <<" ">> \o op \o <<" ">> \o lit

MapSymbols == {op_map[n][2] : n \in 1..Len(op_map)}
UnmappedSymbols == {<<"!", "=">>, <<"~">>}
Literals == {<<"5">>, <<"-", "3">>, <<"1", ".", "5">>, <<"'", "x", "'">>, <<"'", "O", "'", "'", "B", "r", "i", "e", "n", "'">>}

SingleFragments ==
    {Frag(f, o, l) : f \in {<<"f", "i", "e", "l", "d">>, <<"a">>}, o \in MapSymbols \cup UnmappedSymbols, l \in Literals}

SmallFragments == {Frag(f, o, l) : f \in {<<"a">>, <<"b">>}, o \in {<<"=">>, <<">">>}, l \in {<<"5">>, <<"'", "x", "'">>}}

RECURSIVE Conjunctions(_)
Conjunctions(n) ==
    IF n = 1 THEN SmallFragments
    ELSE {c \o AndSep \o f : c \in Conjunctions(n - 1), f \in SmallFragments}

WhereTexts ==
    SingleFragments
    \cup UNION {Conjunctions(n) : n \in 2..MaxFragments}
    \cup {<<>>, <<";">>, <<"a", " ", ">">>, <<"a", " ", ">", " ", "5", ";">>, <<"a", " ", ">", " ", "5", " ", "A", "N", "D", " ", "b">>, <<" ", "a", " ", " ", "=", " ", " ", "'", "x", " ", "y", "'", " ", ";">>}

Strings == {<<"x">>, <<"O", "'", "B", "r", "i", "e", "n">>, <<"i", "t", "'", "s">>}
Scalars == {PyInt(5), PyFloat(15, 1)} \cup {PyStr(s) : s \in Strings}

LeafFilters ==
    {PyDict(<< <<<<"a">>, x>> >>) : x \in Scalars}
    \cup {PyDict(<< <<<<"a">>, PyDict(<< <<k, x>> >>)>> >>) :
             k \in {K_gt, K_gte, K_lt, K_lte, K_eq, K_ne, K_regex, K_opq}, x \in Scalars}
    \cup {PyDict(<< <<<<"a">>, PyDict(<< <<k, PyList(<<PyInt(1), PyStr(<<"x">>)>>)>> >>)>> >>) :
             k \in {K_in, K_nin}}
    \cup {PyDict(<< <<<<"a">>, PyInt(5)>>, <<<<"b">>, PyDict(<< <<K_gt, PyInt(1)>>, <<K_lt, PyInt(9)>> >>)>> >>)}

ChildFilters ==
    {PyDict(<<>>), PyDict(<< <<<<"a">>, PyInt(5)>> >>), PyDict(<< <<<<"b">>, PyStr(<<"x">>)>> >>),
     PyDict(<< <<K_or, PyList(<<PyDict(<<>>)>>)>> >>)}

ChildLists == UNION {[1..n -> ChildFilters] : n \in 0..2}

LogicalFilters == {PyDict(<< <<k, PyList(cs)>> >>) : k \in {K_and, K_or}, cs \in ChildLists}

Filters ==
    LeafFilters \cup LogicalFilters
    \cup {PyDict(<<>>), PyNone, PyInt(5), PyList(<<PyDict(<<>>), PyDict(<< <<<<"a">>, PyInt(5)>> >>)>>)}

SortFields == {<<"a">>, <<"b", "_", "c">>, <<"D", "e", "s", "c">>}
SortPairs == {PyTuple(<<PyStr(f), PyInt(d)>>) : f \in SortFields, d \in {1, -1}}
SortLists == {PyList(s) : s \in UNION {[1..n -> SortPairs] : n \in 1..MaxSort}}
SortInputs == SortLists \cup {PyList(<<>>), PyNone, PyList(<<PyStr(<<"a">>)>>)}

OrderTokens ==
    {Tok("None", "Identifier", s) :
        s \in {<<"a", "g", "e">>, <<"a", "g", "e", " ", "A", "S", "C", ",", " ", "n", "a", "m", "e", " ", "D", "E", "S", "C">>, <<"a", " ", "d", "e", "s", "c">>, <<"a", " ", "b", " ", "c">>, <<>>, <<"a", " ", "f", "o", "o", ";">>, <<"a", " ", ",", " ", "b">>}}

LimitValues == {PyNone} \cup {PyInt(n) : n \in -1..MaxLimit} \cup {PyInt(10)}

Optional(k, xs) == {<<>>} \cup {<< <<k, x>> >> : x \in xs}

MongoObjects ==
    {PyDict(c \o f \o p \o s \o l \o k) :
        c \in Optional(F_collection, {PyStr(<<"u", "s", "e", "r", "s">>)}),
        f \in Optional(F_find, {PyDict(<< <<<<"a", "g", "e">>, PyDict(<< <<K_gte, PyInt(25)>> >>)>>,
                                          <<<<"s", "t", "a", "t", "u", "s">>, PyStr(<<"A", "C", "T", "I", "V", "E">>)>> >>),
                                PyDict(<< <<K_and, PyList(<<PyDict(<<>>)>>)>> >>),
                                PyDict(<< <<K_or, PyList(<<>>)>> >>)}),
        p \in Optional(F_projection, {PyDict(<< <<<<"a", "g", "e">>, PyInt(1)>>, <<<<"x">>, PyInt(0)>>,
                                               <<<<"s", "t", "a", "t", "u", "s">>, PyInt(1)>> >>)}),
        s \in Optional(F_sort, {PyList(<<PyTuple(<<PyStr(<<"a", "g", "e">>), PyInt(-1)>>)>>)}),
        l \in Optional(F_limit, LimitValues),
        k \in Optional(F_skip, LimitValues)}
(* ---------------------------------------------------------------------- *)
(* Calls of the translation functions.  A call either takes a fresh input  *)
(* or the value the previous call returned (a caller's round trip).        *)
(* ---------------------------------------------------------------------- *)
MaxChain == 3

Call(f, a, r) == [fn |-> f, arg |-> a, ret |-> r]
Last == calls[Len(calls)]
CanChain(prev) == calls # <<>> /\ Len(calls) < MaxChain /\ Last.fn \in prev

ScanIdle ==
    /\ pc = "idle" /\ parsed = <<>> /\ tokens = <<>> /\ i = 0
    /\ found_select = FALSE /\ reading_columns = FALSE /\ reading_from = FALSE
    /\ columns = PyList(<<>>) /\ table_name = PyNone /\ where_clause = PyDict(<<>>)
    /\ order_by = PyList(<<>>) /\ group_by = PyList(<<>>) /\ limit_val = PyNone
    /\ result = PyNone

Init == calls = <<>> /\ ScanIdle

Call_parse_where_conditions ==
    /\ calls = <<>>
    /\ \E text \in WhereTexts :
          calls' = <<Call("parse_where_conditions", text, parse_where_conditions(text))>>
    /\ UNCHANGED scan_vars

Then_parse_where_conditions ==
    /\ CanChain({"build_where_sql"})
    /\ calls' = Append(calls, Call("parse_where_conditions", Last.ret,
                                   parse_where_conditions(Last.ret)))
    /\ UNCHANGED scan_vars

Call_build_where_sql ==
    /\ calls = <<>>
    /\ \E find_filter \in Filters :
          calls' = <<Call("build_where_sql", find_filter, build_where_sql(find_filter))>>
    /\ UNCHANGED scan_vars

Then_build_where_sql ==
    /\ CanChain({"parse_where_conditions"})
    /\ calls' = Append(calls, Call("build_where_sql", Last.ret, build_where_sql(Last.ret)))
    /\ UNCHANGED scan_vars

Call_build_order_by_sql ==
    /\ calls = <<>>
    /\ \E sort_list \in SortInputs :
          calls' = <<Call("build_order_by_sql", sort_list, build_order_by_sql(sort_list))>>
    /\ UNCHANGED scan_vars

Then_build_order_by_sql ==
    /\ CanChain({"parse_order_by"})
    /\ calls' = Append(calls, Call("build_order_by_sql", Last.ret, build_order_by_sql(Last.ret)))
    /\ UNCHANGED scan_vars

Call_parse_order_by ==
    /\ calls = <<>>
    /\ \E token \in OrderTokens :
          calls' = <<Call("parse_order_by", token, parse_order_by(token))>>
    /\ UNCHANGED scan_vars

Then_parse_order_by ==
    /\ CanChain({"build_order_by_sql"})
    /\ LET token == Tok("None", "Identifier", Last.ret)
       IN calls' = Append(calls, Call("parse_order_by", token, parse_order_by(token)))
    /\ UNCHANGED scan_vars

Call_mongo_find_to_sql ==
    /\ calls = <<>>
    /\ \E mongo_obj \in MongoObjects :
          calls' = <<Call("mongo_find_to_sql", mongo_obj, mongo_find_to_sql(mongo_obj))>>
    /\ UNCHANGED scan_vars

Next ==
    \/ Call_parse_where_conditions
    \/ Then_parse_where_conditions
    \/ Call_build_where_sql
    \/ Then_build_where_sql
    \/ Call_build_order_by_sql
    \/ Then_build_order_by_sql
    \/ Call_parse_order_by
    \/ Then_parse_order_by
    \/ Call_mongo_find_to_sql

Spec == Init /\ [][Next]_vars

(* ---------------------------------------------------------------------- *)
(* sql_select_to_mongo and the scan loop of parse_select_statement, one    *)
(* action per branch of the loop body.                                     *)
(* ---------------------------------------------------------------------- *)
is_whitespace(token) == token.ttype = "Text.Whitespace"
NotWhitespace(token) == ~is_whitespace(token)

IsSelect(token) == token.ttype = "DML" /\ Upper(token.value) = W_SELECT
IsKeyword(token, word) == token.ttype = "Keyword" /\ Upper(token.value) = word

InitScan ==
    /\ calls = <<>>
    /\ pc = "call"
    /\ parsed \in {<<>>} \cup {<<s>> : s \in Statements}
    /\ tokens = <<>> /\ i = 0
    /\ found_select = FALSE /\ reading_columns = FALSE /\ reading_from = FALSE
    /\ columns = PyList(<<>>) /\ table_name = PyNone /\ where_clause = PyDict(<<>>)
    /\ order_by = PyList(<<>>) /\ group_by = PyList(<<>>) /\ limit_val = PyNone
    /\ result = PyNone

\* the token under the scan index
token == tokens[i + 1]
Scanning == pc = "scan" /\ i < Len(tokens)

\* lines 29-31: nothing parsed
ReturnEmpty ==
    /\ pc = "call" /\ parsed = <<>>
    /\ result' = PyDict(<<>>)
    /\ pc' = "done"
    /\ UNCHANGED <<calls, parsed, tokens, i, found_select, reading_columns, reading_from,
                   columns, table_name, where_clause, order_by, group_by, limit_val>>

\* lines 33-34, 57-72: enter parse_select_statement
StartScan ==
    /\ pc = "call" /\ parsed # <<>>
    /\ tokens' = SelectSeq(parsed[1], NotWhitespace)
    /\ i' = 0
    /\ pc' = "scan"
    /\ UNCHANGED <<calls, parsed, found_select, reading_columns, reading_from,
                   columns, table_name, where_clause, order_by, group_by, limit_val, result>>

\* lines 77-81
DetectSelect ==
    /\ Scanning /\ IsSelect(token)
    /\ found_select' = TRUE
    /\ reading_columns' = TRUE
    /\ i' = i + 1
    /\ UNCHANGED <<calls, pc, parsed, tokens, reading_from,
                   columns, table_name, where_clause, order_by, group_by, limit_val, result>>

\* lines 84-89
ColumnsEnd ==
    /\ Scanning /\ ~IsSelect(token)
    /\ reading_columns /\ IsKeyword(token, W_FROM)
    /\ reading_columns' = FALSE
    /\ reading_from' = TRUE
    /\ i' = i + 1
    /\ UNCHANGED <<calls, pc, parsed, tokens, found_select,
                   columns, table_name, where_clause, order_by, group_by, limit_val, result>>

\* lines 90-95
ReadColumns ==
    /\ Scanning /\ ~IsSelect(token)
    /\ reading_columns /\ ~IsKeyword(token, W_FROM)
    /\ columns' = IF ~Falsy(extract_columns(token)) THEN extract_columns(token) ELSE columns
    /\ i' = i + 1
    /\ UNCHANGED <<calls, pc, parsed, tokens, found_select, reading_columns, reading_from,
                   table_name, where_clause, order_by, group_by, limit_val, result>>

\* lines 98-109: the token after FROM
ReadTable ==
    /\ Scanning /\ ~IsSelect(token) /\ ~reading_columns
    /\ reading_from
    /\ IF token.ttype = "Keyword"
       THEN table_name' = table_name
       ELSE table_name' = PyStr(Strip(token.value))
    /\ reading_from' = FALSE
    /\ i' = i + 1
    /\ UNCHANGED <<calls, pc, parsed, tokens, found_select, reading_columns,
                   columns, where_clause, order_by, group_by, limit_val, result>>

Dispatching == Scanning /\ ~IsSelect(token) /\ ~reading_columns /\ ~reading_from

\* lines 112-115
WhereObject ==
    /\ Dispatching /\ token.cls = "Where"
    /\ where_clause' = extract_where_clause(token)
    /\ i' = i + 1
    /\ UNCHANGED <<calls, pc, parsed, tokens, found_select, reading_columns, reading_from,
                   columns, table_name, order_by, group_by, limit_val, result>>

\* lines 118-135
WhereKeyword ==
    /\ Dispatching /\ token.cls # "Where" /\ IsKeyword(token, W_WHERE)
    /\ IF i + 1 < Len(tokens)
       THEN LET next_token == tokens[i + 2]
            IN /\ where_clause' = IF next_token.cls = "Where"
                                  THEN extract_where_clause(next_token)
                                  ELSE parse_where_conditions(Strip(next_token.value))
               /\ i' = i + 2
       ELSE /\ where_clause' = where_clause
            /\ i' = i + 1
    /\ UNCHANGED <<calls, pc, parsed, tokens, found_select, reading_columns, reading_from,
                   columns, table_name, order_by, group_by, limit_val, result>>

Clause == Dispatching /\ token.cls # "Where" /\ ~IsKeyword(token, W_WHERE)

\* the index after an ORDER or GROUP token at i (lines 140-152, 157-169, 179):
\* BY and a fragment follow: i + 3; BY is last: i + 2 and the final i += 1;
\* no BY follows: i + 1 and the final i += 1; nothing follows: i + 2
ByCaptures == i + 1 < Len(tokens) /\ IsKeyword(tokens[i + 2], W_BY) /\ i + 2 < Len(tokens)
\* AfterBy that steps back to the token before an ORDER or GROUP no BY follows
AfterBy_mut ==
    IF i + 1 < Len(tokens)
    THEN IF IsKeyword(tokens[i + 2], W_BY) THEN i + 3 ELSE i - 1
    ELSE i + 2

AfterBy ==
    IF i + 1 < Len(tokens)
    THEN IF IsKeyword(tokens[i + 2], W_BY) THEN i + 3 ELSE i + 2
    ELSE i + 2

\* lines 138-152
OrderBy ==
    /\ Clause /\ IsKeyword(token, W_ORDER)
    /\ order_by' = IF ByCaptures THEN parse_order_by(tokens[i + 3]) ELSE order_by
    /\ i' = AfterBy
    /\ UNCHANGED <<calls, pc, parsed, tokens, found_select, reading_columns, reading_from,
                   columns, table_name, where_clause, group_by, limit_val, result>>

\* lines 155-169
GroupBy ==
    /\ Clause /\ ~IsKeyword(token, W_ORDER) /\ IsKeyword(token, W_GROUP)
    /\ group_by' = IF ByCaptures THEN parse_group_by(tokens[i + 3]) ELSE group_by
    /\ i' = AfterBy
    /\ UNCHANGED <<calls, pc, parsed, tokens, found_select, reading_columns, reading_from,
                   columns, table_name, where_clause, order_by, limit_val, result>>

\* lines 172-179
Limit ==
    /\ Clause /\ ~IsKeyword(token, W_ORDER) /\ ~IsKeyword(token, W_GROUP)
    /\ IsKeyword(token, W_LIMIT)
    /\ IF i + 1 < Len(tokens)
       THEN limit_val' = parse_limit_value(tokens[i + 2]) /\ i' = i + 2
       ELSE limit_val' = limit_val /\ i' = i + 1
    /\ UNCHANGED <<calls, pc, parsed, tokens, found_select, reading_columns, reading_from,
                   columns, table_name, where_clause, order_by, group_by, result>>

\* line 179: no branch takes the token
SkipToken ==
    /\ Clause /\ ~IsKeyword(token, W_ORDER) /\ ~IsKeyword(token, W_GROUP)
    /\ ~IsKeyword(token, W_LIMIT)
    /\ i' = i + 1
    /\ UNCHANGED <<calls, pc, parsed, tokens, found_select, reading_columns, reading_from,
                   columns, table_name, where_clause, order_by, group_by, limit_val, result>>

\* lines 181, 34-38: the loop ends and the query object is built
Return ==
    /\ pc = "scan" /\ i >= Len(tokens)
    /\ result' = build_mongo_query(table_name, columns, where_clause, order_by, group_by,
                                   limit_val)
    /\ pc' = "done"
    /\ UNCHANGED <<calls, parsed, tokens, i, found_select, reading_columns, reading_from,
                   columns, table_name, where_clause, order_by, group_by, limit_val>>

NextScan ==
    \/ ReturnEmpty
    \/ StartScan
    \/ DetectSelect
    \/ ColumnsEnd
    \/ ReadColumns
    \/ ReadTable
    \/ WhereObject
    \/ WhereKeyword
    \/ OrderBy
    \/ GroupBy
    \/ Limit
    \/ SkipToken
    \/ Return

SpecScan == InitScan /\ [][NextScan]_vars
(* ---------------------------------------------------------------------- *)
(* Properties                                                              *)
(* ---------------------------------------------------------------------- *)
Contains(s, sub) == \E n \in 1..(Len(s) - Len(sub) + 1) : SubSeq(s, n, n + Len(sub) - 1) = sub
EndsWith(s, p) == Len(s) >= Len(p) /\ SubSeq(s, Len(s) - Len(p) + 1, Len(s)) = p

Called(n, f) == n \in 1..Len(calls) /\ calls[n].fn = f

\* the leaf a filter dict holds for a field: a bare scalar is an implicit $eq
LeafTag(d, field) ==
    IF DictGet(d, field).t = "dict" THEN DictGet(d, field).v[1][1] ELSE K_eq
LeafValue(d, field) ==
    IF DictGet(d, field).t = "dict" THEN DictGet(d, field).v[1][2] ELSE DictGet(d, field)
IsSingleLeaf(d, field) ==
    /\ d.t = "dict" /\ Len(d.v) = 1 /\ DictHas(d, field)
    /\ DictGet(d, field).t = "dict" => Len(DictGet(d, field).v) = 1
MapTag(sym) == op_map[CHOOSE n \in 1..Len(op_map) : op_map[n][2] = sym][1]

RECURSIVE LeafCountItems(_)
LeafCountItems(items) ==
    IF items = <<>> THEN 0
    ELSE (IF Head(items)[2].t = "dict" THEN Len(Head(items)[2].v) ELSE 1)
         + LeafCountItems(Tail(items))
LeafCount(d) == LeafCountItems(d.v)

\* C1: for every relational symbol of the operator map, the text
\* "field <symbol> 5" parses to one leaf carrying the map's tag for the symbol
\* and the integer 5, and parsing the rendering of that leaf gives the leaf back.
C1_OperatorRoundTrip ==
    \A n \in 1..Len(calls) : \A sym \in MapSymbols :
        (Called(n, "parse_where_conditions") /\ calls[n].arg = Frag(<<"f", "i", "e", "l", "d">>, sym, <<"5">>))
        => /\ IsSingleLeaf(calls[n].ret, <<"f", "i", "e", "l", "d">>)
           /\ LeafTag(calls[n].ret, <<"f", "i", "e", "l", "d">>) = MapTag(sym)
           /\ LeafValue(calls[n].ret, <<"f", "i", "e", "l", "d">>) = PyInt(5)
           /\ (Called(n + 1, "build_where_sql") /\ Called(n + 2, "parse_where_conditions"))
              => calls[n + 2].ret = calls[n].ret

\* C2: a filter text of n >= 2 well-formed fragments joined by " AND " parses
\* to exactly n leaves, also when two fragments name the same field.
C2_ConjunctionKeepsEveryFragment ==
    \A k \in 1..Len(calls) : \A n \in 2..MaxFragments :
        (Called(k, "parse_where_conditions") /\ calls[k].arg \in Conjunctions(n))
        => LeafCount(calls[k].ret) = n

LimitOf(mongo_obj) == DictGetOr(mongo_obj, F_limit, PyNone)
SkipOf(mongo_obj) == DictGetOr(mongo_obj, F_skip, PyNone)
Positive(x) == x.t = "int" /\ x.v > 0

\* the limit/offset text the policy of the specification prescribes
PolicyText(l, s) ==
    CASE Positive(l) /\ ~Positive(s) -> <<" ", "L", "I", "M", "I", "T", " ">> \o IntToStr(l.v)
      [] Positive(l) /\ Positive(s) -> <<" ", "L", "I", "M", "I", "T", " ">> \o IntToStr(l.v) \o <<" ", "O", "F", "F", "S", "E", "T", " ">> \o IntToStr(s.v)
      [] ~Positive(l) /\ Positive(s) -> <<" ", "L", "I", "M", "I", "T", " ", "9", "9", "9", "9", "9", "9", "9", "9", "9", " ", "O", "F", "F", "S", "E", "T", " ">> \o IntToStr(s.v)
      [] OTHER -> <<>>

\* C3: mongo_find_to_sql appends " LIMIT l" (limit positive, skip not),
\* " LIMIT l OFFSET s" (both positive), " LIMIT 999999999 OFFSET s" (only skip
\* positive) or nothing (neither positive), and then the terminator ";".
C3_LimitOffsetPolicy ==
    \A n \in 1..Len(calls) :
        Called(n, "mongo_find_to_sql")
        => LET l == LimitOf(calls[n].arg)
               s == SkipOf(calls[n].arg)
           IN /\ calls[n].ret = select_sql(calls[n].arg) \o PolicyText(l, s) \o <<";">>
              /\ Contains(calls[n].ret, <<"L", "I", "M", "I", "T">>) <=> (Positive(l) \/ Positive(s))
              /\ Contains(calls[n].ret, <<"O", "F", "F", "S", "E", "T">>) <=> Positive(s)

C3_Witness ==
    \E n \in 1..Len(calls) :
        /\ Called(n, "mongo_find_to_sql")
        /\ ~DictHas(calls[n].arg, F_limit)
        /\ SkipOf(calls[n].arg) = PyInt(2)
        /\ EndsWith(calls[n].ret, <<" ", "L", "I", "M", "I", "T", " ", "9", "9", "9", "9", "9", "9", "9", "9", "9", " ", "O", "F", "F", "S", "E", "T", " ", "2", ";">>)

\* C4: a string value renders as a single-quoted literal with its quotes
\* doubled, and parsing the rendered fragment recovers the original string.
C4_QuotedStringRoundTrip ==
    \A n \in 1..Len(calls) : \A s \in Strings :
        (Called(n, "build_where_sql") /\ calls[n].arg = PyDict(<< <<<<"a">>, PyStr(s)>> >>))
        => /\ calls[n].ret = <<"a", " ", "=", " ", "'">> \o Replace(s, "'", <<"'", "'">>) \o <<"'">>
           /\ Called(n + 1, "parse_where_conditions")
              => calls[n + 1].ret = PyDict(<< <<<<"a">>, PyStr(s)>> >>)

\* the ORDER BY text the specification prescribes for a list of pairs
SortText(pairs) ==
    Join([n \in 1..Len(pairs) |->
            pairs[n].v[1].v \o (IF pairs[n].v[2].v = 1 THEN <<" ", "A", "S", "C">> ELSE <<" ", "D", "E", "S", "C">>)], <<",", " ">>)

C6_UnknownOperatorPreserved ==
    \A n \in 1..Len(calls) : \A sym \in UnmappedSymbols : \A l \in Literals :
        (Called(n, "parse_where_conditions") /\ calls[n].arg = Frag(<<"a">>, sym, l))
        => /\ IsSingleLeaf(calls[n].ret, <<"a">>)
           /\ \/ Contains(LeafTag(calls[n].ret, <<"a">>), sym)
              \/ Contains(ToStr(LeafValue(calls[n].ret, <<"a">>)), sym)
           /\ Called(n + 1, "build_where_sql") => Contains(calls[n + 1].ret, sym)

\* C7: the value of the equality leaf of "field = literal" is the coerced
\* literal (Integer, else Float, else quote-trimmed String), as convert_value
\* gives it for the other operators.
C7_EqualityValueCoerced ==
    \A n \in 1..Len(calls) : \A f \in {<<"f", "i", "e", "l", "d">>, <<"a">>} : \A l \in Literals :
        (Called(n, "parse_where_conditions") /\ calls[n].arg = Frag(f, <<"=">>, l))
        => /\ IsSingleLeaf(calls[n].ret, f)
           /\ LeafValue(calls[n].ret, f) = convert_value(trim_literal(l))

HasSelect == \E n \in 1..Len(tokens) : IsSelect(tokens[n])
IsError(x, kind) == x.t = "error" /\ x.v = kind

\* C8: a statement without a SELECT token ends in the MalformedStatement
\* error and returns no query object.
C8_NoSelectIsMalformed ==
    (pc = "done" /\ parsed # <<>> /\ ~HasSelect) => IsError(result, "MalformedStatement")

\* FROM at position f closes the column list opened by SELECT at position 1
FromAt(f) ==
    /\ f \in 2..Len(tokens)
    /\ IsSelect(tokens[1])
    /\ IsKeyword(tokens[f], W_FROM)
    /\ \A n \in 2..(f - 1) : ~IsSelect(tokens[n]) /\ ~IsKeyword(tokens[n], W_FROM)
NoLater(word, f) == \A n \in (f + 2)..Len(tokens) : ~IsKeyword(tokens[n], word)

\* C9: when the token right after FROM is ORDER, GROUP or LIMIT, the table
\* name stays unset and the clause the keyword opens is captured in the result.
C9_KeywordAfterFromDispatched ==
    \A f \in 1..Len(tokens) :
        (pc = "done" /\ FromAt(f) /\ f + 2 <= Len(tokens))
        => /\ (IsKeyword(tokens[f + 1], W_LIMIT) /\ NoLater(W_LIMIT, f))
              => /\ table_name = PyNone
                 /\ limit_val = parse_limit_value(tokens[f + 2])
           /\ (IsKeyword(tokens[f + 1], W_ORDER) /\ IsKeyword(tokens[f + 2], W_BY)
                  /\ f + 3 <= Len(tokens) /\ NoLater(W_ORDER, f))
              => /\ table_name = PyNone
                 /\ order_by = parse_order_by(tokens[f + 3])
           /\ (IsKeyword(tokens[f + 1], W_GROUP) /\ IsKeyword(tokens[f + 2], W_BY)
                  /\ f + 3 <= Len(tokens) /\ NoLater(W_GROUP, f))
              => /\ table_name = PyNone
                 /\ group_by = parse_group_by(tokens[f + 3])

\* a logical node all of whose children render to empty text
IsEmptyLogical(x) ==
    /\ x.t = "dict" /\ Len(x.v) = 1 /\ x.v[1][1] \in {K_and, K_or}
    /\ \A n \in 1..Len(x.v[1][2].v) : build_where_sql(x.v[1][2].v[n]) = <<>>

\* C10: a logical root whose children all render to empty text renders to
\* the empty text, and mongo_find_to_sql then emits no WHERE clause.
C10_EmptyLogicalNodeRendersEmpty ==
    \A n \in 1..Len(calls) :
        /\ (Called(n, "build_where_sql") /\ IsEmptyLogical(calls[n].arg))
           => calls[n].ret = <<>>
        /\ (Called(n, "mongo_find_to_sql") /\ DictHas(calls[n].arg, F_find)
               /\ IsEmptyLogical(DictGet(calls[n].arg, F_find)))
           => ~Contains(calls[n].ret, <<"W", "H", "E", "R", "E">>)

\* C11: the scan loop never backtracks and always terminates: every iteration
\* raises the token index i by at least 1 over an unchanged token sequence and
\* stays in the scan, and i stays within 0 .. Len(tokens) + 1; the loop runs
\* while i < Len(tokens), so it ends after at most Len(tokens) iterations, for
\* every token sequence and every order of keywords.
C11_ScanAdvancesAndTerminates ==
    /\ [][Scanning => (i' >= i + 1 /\ tokens' = tokens /\ pc' = "scan")]_vars
    /\ [](pc = "scan" => (i >= 0 /\ i <= Len(tokens) + 1))

\* ORDER BY as the last two tokens: the scan has ended with i past the end
C11_Witness ==
    /\ pc = "done"
    /\ Len(tokens) >= 3
    /\ IsKeyword(tokens[Len(tokens) - 1], W_ORDER)
    /\ IsKeyword(tokens[Len(tokens)], W_BY)
    /\ i = Len(tokens) + 1
    /\ order_by = PyList(<<>>)
====
